---- MODULE Spec2Model ----
(***************************************************************************)
(* State-space search of search.py: the Problem contract, the search-tree  *)
(* Node, breadth_first_graph_search, best_first_graph_search and the       *)
(* MazePuzzle domain, with the script maze_puzzle_game.py as one input.    *)
(*                                                                         *)
(* A behaviour is one call of one search function on one problem: Init     *)
(* draws the problem and the call's arguments, the actions are the steps   *)
(* of the function's body.                                                 *)
(***************************************************************************)
EXTENDS Integers, Sequences, FiniteSets, TLC

VARIABLES problem, alg, fkind, step_limits, pc, node, frontier, explored,
          step_num, children, result, popped

vars == <<problem, alg, fkind, step_limits, pc, node, frontier, explored,
          step_num, children, result, popped>>

(***************************************************************************)
(* Bounds of the inputs.                                                   *)
(***************************************************************************)
\* states of a graph problem are 0 .. NumStates-1
NumStates == 3
\* step costs of a weighted graph problem are 1 .. MaxCost
MaxCost == 3
\* heuristic values of a graph problem are 0 .. MaxH
MaxH == 2
\* positive step limits handed to breadth_first_graph_search are 1 .. MaxStepLimit
MaxStepLimit == 2
\* the small mazes have MazeRows rows and MazeCols columns
MazeRows == 3
MazeCols == 2

\* Python's None (an absent parent, an absent goal, the failure value)
None == <<>>
\* the action of the root node (None in the code), of the type of the actions
NoAction == "None"

Min(S) == CHOOSE x \in S : \A y \in S : x <= y
Abs(x) == IF x < 0 THEN -x ELSE x
Range(s) == {s[i] : i \in 1..Len(s)}

(***************************************************************************)
(* Problem.  A problem is a record; its field kind names the class of the  *)
(* object, which decides the method a call dispatches to:                  *)
(*   "abstract"  a Problem that overrides nothing                          *)
(*   "noresult"  a subclass implementing actions over a graph, not result  *)
(*   "graph"     a subclass implementing actions and result over a graph   *)
(*   "wgraph"    the same, overriding path_cost with the edge's cost       *)
(*   "maze"      MazePuzzle                                                *)
(* goal is tagged by its Python type: None, a list, or a single state.     *)
(***************************************************************************)
States == 0..(NumStates - 1)

NoGoal == [tag |-> "none", val |-> None]
SingleGoal(s) == [tag |-> "single", val |-> s]
ListGoal(l) == [tag |-> "list", val |-> l]

\* the name of the action of a graph problem that leads to state j
ActionNames == <<"GO0", "GO1", "GO2", "GO3", "GO4", "GO5">>
GraphAction(j) == ActionNames[j + 1]

\* utils.is_in(elt, seq)
is_in(elt, seq) == \E i \in 1..Len(seq) : seq[i] = elt

\* whether a call of problem.actions raises NotImplementedError
NotImplemented(p) == p.kind = "abstract"

\* whether a call of problem.result raises NotImplementedError
ResultNotImplemented(p) == p.kind \in {"abstract", "noresult"}

\* the ascending sequence of the elements of a set of integers
RECURSIVE SortedSeq(_)
SortedSeq(S) == IF S = {} THEN <<>>
                ELSE LET m == Min(S) IN <<m>> \o SortedSeq(S \ {m})

\* MazePuzzle.actions(state) without the test of the destination cell
MazeActionsNoWalls(p, state) ==
    LET x == state[1]
        y == state[2]
        maze == p.maze
        up == IF x > 0 THEN <<"UP">> ELSE <<>>
        down == IF x < Len(maze) - 1 THEN <<"DOWN">> ELSE <<>>
        left == IF y > 0 THEN <<"LEFT">> ELSE <<>>
        right == IF y < Len(maze[1]) - 1 THEN <<"RIGHT">> ELSE <<>>
    IN up \o down \o left \o right

\* MazePuzzle.actions(state) with UP not tested against the cell above
MazeActionsUpUnchecked(p, state) ==
    LET x == state[1]
        y == state[2]
        maze == p.maze
        up == IF x > 0 THEN <<"UP">> ELSE <<>>
        down == IF x < Len(maze) - 1 /\ maze[x + 2][y + 1] = "."
                THEN <<"DOWN">> ELSE <<>>
        left == IF y > 0 /\ maze[x + 1][y] = "." THEN <<"LEFT">> ELSE <<>>
        right == IF y < Len(maze[1]) - 1 /\ maze[x + 1][y + 2] = "."
                 THEN <<"RIGHT">> ELSE <<>>
    IN up \o down \o left \o right

\* MazePuzzle.actions(state)
MazeActions(p, state) ==
    LET x == state[1]
        y == state[2]
        maze == p.maze
        up == IF x > 0 /\ maze[x][y + 1] = "." THEN <<"UP">> ELSE <<>>
        down == IF x < Len(maze) - 1 /\ maze[x + 2][y + 1] = "."
                THEN <<"DOWN">> ELSE <<>>
        left == IF y > 0 /\ maze[x + 1][y] = "." THEN <<"LEFT">> ELSE <<>>
        right == IF y < Len(maze[1]) - 1 /\ maze[x + 1][y + 2] = "."
                 THEN <<"RIGHT">> ELSE <<>>
    IN up \o down \o left \o right

\* MazePuzzle.result(state, action)
MazeResult(p, state, action) ==
    LET x == state[1]
        y == state[2]
    IN CASE action = "UP" -> <<x - 1, y>>
         [] action = "DOWN" -> <<x + 1, y>>
         [] action = "LEFT" -> <<x, y - 1>>
         [] action = "RIGHT" -> <<x, y + 1>>
         [] OTHER -> None

\* problem.actions(state) of a graph problem: one action per edge, by target
GraphActions(p, state) ==
    LET targets == SortedSeq({j \in States : p.cost[state][j] > 0})
    IN [i \in 1..Len(targets) |-> GraphAction(targets[i])]

\* problem.result(state, action) of a graph problem
GraphResult(p, state, action) ==
    CHOOSE j \in States : GraphAction(j) = action

\* problem.actions(state)
actions(p, state) ==
    IF p.kind = "maze" THEN MazeActions(p, state) ELSE GraphActions(p, state)

\* problem.result(state, action)
Result(p, state, action) ==
    IF p.kind = "maze" THEN MazeResult(p, state, action)
    ELSE GraphResult(p, state, action)

\* Problem.goal_test(state) comparing a list goal by its first element only
ProblemGoalTestFirst(p, state) ==
    IF p.goal.tag = "list" THEN p.goal.val # <<>> /\ state = p.goal.val[1]
    ELSE p.goal.tag = "single" /\ state = p.goal.val

\* Problem.goal_test(state) without the branch of a list goal
ProblemGoalTestNoList(p, state) == p.goal.tag = "single" /\ state = p.goal.val

\* Problem.goal_test(state)
ProblemGoalTest(p, state) ==
    IF p.goal.tag = "list" THEN is_in(state, p.goal.val)
    ELSE p.goal.tag = "single" /\ state = p.goal.val

\* MazePuzzle.goal_test(state) comparing the rows only
MazeGoalTestRow(p, state) == p.goal.tag = "single" /\ state[1] = p.goal.val[1]

\* MazePuzzle.goal_test(state)
MazeGoalTest(p, state) == p.goal.tag = "single" /\ state = p.goal.val

\* problem.goal_test(state)
goal_test(p, state) ==
    IF p.kind = "maze" THEN MazeGoalTest(p, state) ELSE ProblemGoalTest(p, state)

\* Problem.path_cost(c, state1, action, state2)
ProblemPathCost(c, state1, action, state2) == c + 1

\* problem.path_cost(c, state1, action, state2)
path_cost(p, c, state1, action, state2) ==
    IF p.kind = "wgraph" THEN c + p.cost[state1][state2]
    ELSE ProblemPathCost(c, state1, action, state2)

(***************************************************************************)
(* Node.                                                                   *)
(***************************************************************************)
\* Node.__init__ with the depth of the parent taken as it is
NodeSameDepth(state, parent, action, pathcost) ==
    [state |-> state, parent |-> parent, action |-> action,
     path_cost |-> pathcost,
     depth |-> IF parent # None THEN parent[1].depth ELSE 0]

\* Node.__init__(state, parent, action, path_cost); parent is None or <<node>>
Node(state, parent, action, pathcost) ==
    [state |-> state, parent |-> parent, action |-> action,
     path_cost |-> pathcost,
     depth |-> IF parent # None THEN parent[1].depth + 1 ELSE 0]

\* Node.__eq__ left to the default of object: two nodes are equal when they are
\* the same node
NodeEqIdentity(a, b) == a = b

\* Node.__eq__
NodeEq(a, b) == a.state = b.state

\* Node.child_node(problem, action)
child_node(n, p, action) ==
    LET next_state == Result(p, n.state, action)
    IN Node(next_state, <<n>>, action,
            path_cost(p, n.path_cost, n.state, action, next_state))

\* Node.expand(problem) raising only when problem.actions does
ExpandRaisesActionsOnly(n, p) == NotImplemented(p)

\* whether Node.expand(problem) raises: problem.actions is called first, then
\* problem.result once for the first action, if there is one
ExpandRaises(n, p) ==
    IF NotImplemented(p) THEN TRUE
    ELSE ResultNotImplemented(p) /\ Len(actions(p, n.state)) > 0

\* Node.expand(problem) going through the actions twice
ExpandTwice(n, p) ==
    LET acts == actions(p, n.state) \o actions(p, n.state)
    IN [i \in 1..Len(acts) |-> child_node(n, p, acts[i])]

\* Node.expand(problem)
expand(n, p) ==
    LET acts == actions(p, n.state)
    IN [i \in 1..Len(acts) |-> child_node(n, p, acts[i])]

\* Node.path()
RECURSIVE path(_)
path(n) == IF n.parent = None THEN <<n>> ELSE Append(path(n.parent[1]), n)

\* Node.solution()
solution(n) == LET pth == path(n) IN [i \in 1..(Len(pth) - 1) |-> pth[i + 1].action]

(***************************************************************************)
(* The scoring function f handed to best_first_graph_search, and the       *)
(* heuristics it is built from.                                            *)
(***************************************************************************)
\* MazePuzzle.h(node) counting every row and column twice
MazeHDouble(p, n) ==
    2 * (Abs(n.state[1] - p.goal.val[1]) + Abs(n.state[2] - p.goal.val[2]))

\* MazePuzzle.h(node)
MazeH(p, n) ==
    Abs(n.state[1] - p.goal.val[1]) + Abs(n.state[2] - p.goal.val[2])

\* problem.h(node)
h(p, n) == IF p.kind = "maze" THEN MazeH(p, n) ELSE p.h[n.state]

\* f(node): lambda n: problem.h(n), n.path_cost + problem.h(n), or n.path_cost
f(p, kind, n) ==
    CASE kind = "h" -> h(p, n)
      [] kind = "g+h" -> n.path_cost + h(p, n)
      [] OTHER -> n.path_cost

(***************************************************************************)
(* utils.PriorityQueue('min', f): a heap of the pairs (f(item), item),     *)
(* here the set of its entries.  pop takes the least pair; pairs of equal  *)
(* f are ordered by their items, that is by Node.__lt__.                   *)
(***************************************************************************)
\* state1 < state2 in Python: the tuples (row, column) of a maze, or integers
StateLess(p, s1, s2) ==
    IF p.kind = "maze" THEN s1[1] < s2[1] \/ (s1[1] = s2[1] /\ s1[2] < s2[2])
    ELSE s1 < s2

\* Node.__lt__
NodeLt(p, a, b) == StateLess(p, a.state, b.state)

PQAppend(q, score, item) == q \cup {[f |-> score, item |-> item]}
PQContains(q, key) == \E e \in q : NodeEq(e.item, key)
PQGet(q, key) == (CHOOSE e \in q : NodeEq(e.item, key)).f
PQDel(q, key) == {e \in q : ~NodeEq(e.item, key)}
PQLess(p, d, e) == d.f < e.f \/ (d.f = e.f /\ NodeLt(p, d.item, e.item))
PQMin(p, q) == {e \in q : \A d \in q : ~PQLess(p, d, e)}

\* child in frontier, for the deque of breadth_first_graph_search
InDeque(q, key) == \E i \in 1..Len(q) : NodeEq(q[i], key)

\* frontier.pop() in place of frontier.popleft(): the newest node is taken
PopRight(q) == [item |-> q[Len(q)], rest |-> SubSeq(q, 1, Len(q) - 1)]

\* frontier.popleft(): the node taken and the deque left
popleft(q) == [item |-> Head(q), rest |-> Tail(q)]

\* the limit compared without the test that it is positive
LimitNoSign(limits, num) == num >= limits

\* the limit compared with > in place of >=
LimitReachedLate(limits, num) == limits > 0 /\ num > limits

\* step_limits > 0 and step_num >= step_limits
LimitReached(limits, num) == limits > 0 /\ num >= limits

\* child.state not in explored and child not in frontier, in the breadth-first search
BfsIsNew(child, expl, q) == child.state \notin expl /\ ~InDeque(q, child)

\* the test of the explored set left out
BestIsNewUnexplored(child, expl, q) == ~PQContains(q, child)

\* child.state not in explored and child not in frontier, in the best-first search
BestIsNew(child, expl, q) == child.state \notin expl /\ ~PQContains(q, child)

\* f(child) <= frontier[child]
ShouldReplaceNonStrict(fc, fold) == fc <= fold

\* a frontier entry is never replaced
ShouldReplaceNever(fc, fold) == FALSE

\* f(child) < frontier[child]
ShouldReplace(fc, fold) == fc < fold

(***************************************************************************)
(* The inputs: the problems and the arguments of the call.                 *)
(***************************************************************************)
\* the maze of maze_puzzle_game.py
ScriptMaze == << <<".", ".", ".", "#", ".">>,
                 <<".", ".", ".", ".", ".">>,
                 <<"#", ".", "#", ".", "#">>,
                 <<".", ".", ".", "#", ".">>,
                 <<".", "#", ".", ".", ".">> >>

\* puzzle = MazePuzzle((0, 0), (4, 4), maze)
ScriptPuzzle ==
    [kind |-> "maze", initial |-> <<0, 0>>, goal |-> SingleGoal(<<4, 4>>),
     maze |-> ScriptMaze]

\* MazePuzzle(initial, goal, maze) over the small grids
SmallMazes == [1..MazeRows -> [1..MazeCols -> {".", "#"}]]
Cells(maze) == {<<x, y>> : x \in 0..(Len(maze) - 1), y \in 0..(Len(maze[1]) - 1)}
MazeProblems ==
    {ScriptPuzzle} \cup
    {[kind |-> "maze", initial |-> <<0, 0>>, goal |-> SingleGoal(g), maze |-> m] :
        g \in Cells([i \in 1..MazeRows |-> [j \in 1..MazeCols |-> "."]]),
        m \in SmallMazes}

\* the goals a graph problem is built with
GraphGoals ==
    {NoGoal, SingleGoal(0), SingleGoal(NumStates - 1),
     ListGoal(<<NumStates - 1, NumStates - 2>>)}

\* a graph: cost[i][j] > 0 is the cost of the edge from i to j, 0 is no edge
Graphs == [States -> [States -> 0..1]]

\* the weighted graphs: no edge from a state to itself, an edge back to the
\* initial state costs 1
WeightedGraphs(S) ==
    {c \in [S -> [S -> 0..MaxCost]] :
        \A i \in S : c[i][i] = 0 /\ c[i][0] <= 1}

ZeroH == [s \in States |-> 0]

\* the heuristic tables; the table's value at the initial state orders nothing
HTables == {hh \in [States -> 0..MaxH] : hh[0] = 0}

\* graph problems with the default path_cost
UnitGraphProblems ==
    {[kind |-> "graph", initial |-> 0, goal |-> g, cost |-> c, h |-> ZeroH] :
        g \in GraphGoals, c \in Graphs}

\* weighted graph problems with a heuristic table
WeightedGraphProblems(S) ==
    {[kind |-> "wgraph", initial |-> 0, goal |-> g, cost |-> c, h |-> hh] :
        g \in GraphGoals, c \in WeightedGraphs(S), hh \in HTables}

\* Problem(initial, goal) itself, no method overridden
AbstractProblems ==
    {[kind |-> "abstract", initial |-> 0, goal |-> g] : g \in {NoGoal, SingleGoal(0), SingleGoal(1)}}

\* subclasses that implement actions and leave result out; only the edges out
\* of the initial state are ever asked for
NoResultProblems ==
    {[kind |-> "noresult", initial |-> 0, goal |-> g, cost |-> c, h |-> ZeroH] :
        g \in {NoGoal, SingleGoal(0), SingleGoal(1)},
        c \in {d \in Graphs : \A i \in States \ {0} : \A j \in States : d[i][j] = 0}}

StepLimits == {-1} \cup 1..MaxStepLimit

Returned == pc \in {"return_root", "return_limit", "return_child", "return_pop"}
Done == Returned \/ pc \in {"return_none", "raise"}

Init ==
    /\ \/ /\ alg = "bfs"
          /\ problem \in UnitGraphProblems \cup MazeProblems \cup AbstractProblems
                          \cup NoResultProblems
          /\ step_limits \in StepLimits
          /\ fkind = "none"
       \/ /\ alg = "best"
          /\ problem \in WeightedGraphProblems(States) \cup MazeProblems
          /\ step_limits = -1
          /\ fkind \in {"h", "g+h"}
       \/ /\ alg = "best"
          /\ problem \in AbstractProblems \cup NoResultProblems
          /\ step_limits = -1
          /\ fkind = "g"
    /\ pc = "start"
    /\ node = None
    /\ frontier = IF alg = "bfs" THEN <<>> ELSE {}
    /\ explored = {}
    /\ step_num = 0
    /\ children = <<>>
    /\ result = None
    /\ popped = <<>>

(***************************************************************************)
(* breadth_first_graph_search(problem, step_limits)                        *)
(***************************************************************************)
\* node = Node(problem.initial); the goal test of the root; frontier, explored
BfsStart ==
    /\ pc = "start" /\ alg = "bfs"
    /\ node' = Node(problem.initial, None, NoAction, 0)
    /\ \/ /\ goal_test(problem, node'.state)
          /\ pc' = "return_root"
          /\ result' = <<node'>>
          /\ UNCHANGED <<frontier, explored, step_num>>
       \/ /\ ~goal_test(problem, node'.state)
          /\ frontier' = <<node'>>
          /\ explored' = {}
          /\ step_num' = 0
          /\ pc' = "loop"
          /\ UNCHANGED result
    /\ UNCHANGED <<problem, alg, fkind, step_limits, children, popped>>

\* while frontier: step_num = step_num + 1; node = frontier.popleft()
BfsPop ==
    /\ pc = "loop" /\ alg = "bfs"
    /\ \/ /\ frontier = <<>>
          /\ pc' = "return_none"
          /\ result' = None
          /\ UNCHANGED <<node, frontier, step_num, popped>>
       \/ /\ frontier # <<>>
          /\ step_num' = step_num + 1
          /\ node' = popleft(frontier).item
          /\ frontier' = popleft(frontier).rest
          /\ popped' = Append(popped, node')
          /\ pc' = "popped"
          /\ UNCHANGED result
    /\ UNCHANGED <<problem, alg, fkind, step_limits, explored, children>>

\* the step limit; explored.add(node.state); node.expand(problem)
BfsExpand ==
    /\ pc = "popped" /\ alg = "bfs"
    /\ \/ /\ LimitReached(step_limits, step_num)
          /\ pc' = "return_limit"
          /\ result' = <<node>>
          /\ UNCHANGED <<explored, children>>
       \/ /\ ~LimitReached(step_limits, step_num)
          /\ explored' = explored \cup {node.state}
          /\ \/ /\ ExpandRaises(node, problem)
                /\ pc' = "raise"
                /\ UNCHANGED children
             \/ /\ ~ExpandRaises(node, problem)
                /\ children' = expand(node, problem)
                /\ pc' = "child"
          /\ UNCHANGED result
    /\ UNCHANGED <<problem, alg, fkind, step_limits, node, frontier, step_num, popped>>

\* one turn of: for child in node.expand(problem)
BfsChild ==
    /\ pc = "child" /\ alg = "bfs"
    /\ \/ /\ children = <<>>
          /\ pc' = "loop"
          /\ UNCHANGED <<frontier, children, result>>
       \/ /\ children # <<>>
          /\ LET child == Head(children) IN
             \/ /\ BfsIsNew(child, explored, frontier)
                /\ goal_test(problem, child.state)
                /\ pc' = "return_child"
                /\ result' = <<child>>
                /\ UNCHANGED <<frontier, children>>
             \/ /\ BfsIsNew(child, explored, frontier)
                /\ ~goal_test(problem, child.state)
                /\ frontier' = Append(frontier, child)
                /\ children' = Tail(children)
                /\ UNCHANGED <<pc, result>>
             \/ /\ ~BfsIsNew(child, explored, frontier)
                /\ children' = Tail(children)
                /\ UNCHANGED <<pc, frontier, result>>
    /\ UNCHANGED <<problem, alg, fkind, step_limits, node, explored, step_num, popped>>

(***************************************************************************)
(* best_first_graph_search(problem, f)                                     *)
(***************************************************************************)
\* node = Node(problem.initial); frontier.append(node); explored = set()
BestStart ==
    /\ pc = "start" /\ alg = "best"
    /\ node' = Node(problem.initial, None, NoAction, 0)
    /\ frontier' = PQAppend({}, f(problem, fkind, node'), node')
    /\ explored' = {}
    /\ step_num' = 0
    /\ pc' = "loop"
    /\ UNCHANGED <<problem, alg, fkind, step_limits, children, result, popped>>

\* the loop head taking any entry of the frontier, not the least
BestPopAny ==
    /\ pc = "loop" /\ alg = "best"
    /\ \/ /\ frontier = {}
          /\ pc' = "return_none"
          /\ result' = None
          /\ UNCHANGED <<node, frontier, step_num, popped>>
       \/ /\ frontier # {}
          /\ step_num' = step_num + 1
          /\ \E e \in frontier :
                /\ node' = e.item
                /\ frontier' = frontier \ {e}
          /\ popped' = Append(popped, node')
          /\ pc' = "popped"
          /\ UNCHANGED result
    /\ UNCHANGED <<problem, alg, fkind, step_limits, explored, children>>

\* while frontier: step_num = step_num + 1; node = frontier.pop()
BestPop ==
    /\ pc = "loop" /\ alg = "best"
    /\ \/ /\ frontier = {}
          /\ pc' = "return_none"
          /\ result' = None
          /\ UNCHANGED <<node, frontier, step_num, popped>>
       \/ /\ frontier # {}
          /\ step_num' = step_num + 1
          /\ \E e \in PQMin(problem, frontier) :
                /\ node' = e.item
                /\ frontier' = frontier \ {e}
          /\ popped' = Append(popped, node')
          /\ pc' = "popped"
          /\ UNCHANGED result
    /\ UNCHANGED <<problem, alg, fkind, step_limits, explored, children>>

\* the goal test of the popped node; explored.add(node.state); node.expand(problem)
BestExpand ==
    /\ pc = "popped" /\ alg = "best"
    /\ \/ /\ goal_test(problem, node.state)
          /\ pc' = "return_pop"
          /\ result' = <<node>>
          /\ UNCHANGED <<explored, children>>
       \/ /\ ~goal_test(problem, node.state)
          /\ explored' = explored \cup {node.state}
          /\ \/ /\ ExpandRaises(node, problem)
                /\ pc' = "raise"
                /\ UNCHANGED children
             \/ /\ ~ExpandRaises(node, problem)
                /\ children' = expand(node, problem)
                /\ pc' = "child"
          /\ UNCHANGED result
    /\ UNCHANGED <<problem, alg, fkind, step_limits, node, frontier, step_num, popped>>

\* one turn of: for child in node.expand(problem)
BestChild ==
    /\ pc = "child" /\ alg = "best"
    /\ \/ /\ children = <<>>
          /\ pc' = "loop"
          /\ UNCHANGED <<frontier, children>>
       \/ /\ children # <<>>
          /\ children' = Tail(children)
          /\ UNCHANGED pc
          /\ LET child == Head(children)
                 fc == f(problem, fkind, child)
             IN
             \/ /\ BestIsNew(child, explored, frontier)
                /\ frontier' = PQAppend(frontier, fc, child)
             \/ /\ ~BestIsNew(child, explored, frontier)
                /\ PQContains(frontier, child)
                /\ ShouldReplace(fc, PQGet(frontier, child))
                /\ frontier' = PQAppend(PQDel(frontier, child), fc, child)
             \/ /\ ~BestIsNew(child, explored, frontier)
                /\ PQContains(frontier, child)
                /\ ~ShouldReplace(fc, PQGet(frontier, child))
                /\ UNCHANGED frontier
             \/ /\ ~BestIsNew(child, explored, frontier)
                /\ ~PQContains(frontier, child)
                /\ UNCHANGED frontier
    /\ UNCHANGED <<problem, alg, fkind, step_limits, node, explored, step_num,
                   result, popped>>

Next ==
    \/ BfsStart \/ BfsPop \/ BfsExpand \/ BfsChild
    \/ BestStart \/ BestPop \/ BestExpand \/ BestChild

Spec == Init /\ [][Next]_vars

\* the two calls of maze_puzzle_game.py: breadth_first_graph_search(puzzle) and
\* best_first_graph_search(puzzle, lambda n: puzzle.h(n))
ScriptInit ==
    /\ problem = ScriptPuzzle
    /\ \/ alg = "bfs" /\ fkind = "none"
       \/ alg = "best" /\ fkind = "h"
    /\ step_limits = -1
    /\ pc = "start"
    /\ node = None
    /\ frontier = IF alg = "bfs" THEN <<>> ELSE {}
    /\ explored = {}
    /\ step_num = 0
    /\ children = <<>>
    /\ result = None
    /\ popped = <<>>

ScriptSpec == ScriptInit /\ [][Next]_vars

\* a call runs on: the body of a search function has no point at which it
\* waits, so a step that can be taken is taken
FairSpec == Spec /\ WF_vars(Next)

(***************************************************************************)
(* Reference notions the properties are stated with.  They are read off    *)
(* the data of the problem (the edge costs, the grid, the goal), not off   *)
(* the methods the searches call.                                          *)
(***************************************************************************)
Concrete == ~ResultNotImplemented(problem)

StatesOf(p) == IF p.kind = "maze" THEN Cells(p.maze) ELSE States

Passable(maze, c) == c \in Cells(maze) /\ maze[c[1] + 1][c[2] + 1] = "."

\* the edges out of s, as pairs <<target, cost>>
RefSucc(p, s) ==
    IF p.kind = "maze"
    THEN {<<t, 1>> : t \in {c \in {<<s[1] - 1, s[2]>>, <<s[1] + 1, s[2]>>,
                                   <<s[1], s[2] - 1>>, <<s[1], s[2] + 1>>} :
                            Passable(p.maze, c)}}
    ELSE {<<j, IF p.kind = "wgraph" THEN p.cost[s][j] ELSE 1>> :
            j \in {k \in States : p.cost[s][k] > 0}}

RefGoals(p) ==
    CASE p.goal.tag = "single" -> {p.goal.val}
      [] p.goal.tag = "list" -> Range(p.goal.val)
      [] OTHER -> {}

\* one round of relaxation of the least costs d, known on DOMAIN d
Relax(p, d) ==
    LET dom == DOMAIN d
        new == dom \cup {e[1] : e \in UNION {RefSucc(p, s) : s \in dom}}
    IN [t \in new |->
          Min((IF t \in dom THEN {d[t]} ELSE {}) \cup
              UNION {{d[s] + e[2] : e \in {x \in RefSucc(p, s) : x[1] = t}} :
                     s \in dom})]

\* the least cost of a path from s to each state a path leads to
RECURSIVE RelaxAll(_, _)
RelaxAll(p, d) == LET n == Relax(p, d) IN IF n = d THEN d ELSE RelaxAll(p, n)
RefDist(p, s) == RelaxAll(p, s :> 0)

\* a goal can be reached from s, and the least cost of reaching one
GoalReachableFrom(p, s) == DOMAIN RefDist(p, s) \cap RefGoals(p) # {}
RefMinCostFrom(p, s) ==
    LET d == RefDist(p, s) IN Min({d[g] : g \in DOMAIN d \cap RefGoals(p)})

\* an action sequence, replayed from the initial state with problem.result:
\* the state it ends in, or None when one of its actions is not among
\* problem.actions of the state it is applied to
RECURSIVE Replay(_, _, _)
Replay(p, state, acts) ==
    IF acts = <<>> THEN <<state>>
    ELSE IF Head(acts) \in Range(actions(p, state))
         THEN Replay(p, Result(p, state, Head(acts)), Tail(acts))
         ELSE None

\* the nodes held by the frontier, and their states
FrontierNodes ==
    IF alg = "bfs" THEN Range(frontier) ELSE {e.item : e \in frontier}
FrontierStates == {n.state : n \in FrontierNodes}

\* every node the search holds at the moment
LiveNodes ==
    IF pc = "start" THEN {}
    ELSE {node} \cup FrontierNodes \cup Range(children)
         \cup (IF Returned THEN {result[1]} ELSE {})

(***************************************************************************)
(* C1.  Dedup invariant: at every point of either search no state is both  *)
(* in the explored set and held by a frontier node, and no two entries of  *)
(* the frontier hold the same state.                                       *)
(***************************************************************************)
FrontierSize == IF alg = "bfs" THEN Len(frontier) ELSE Cardinality(frontier)

DedupInvariant ==
    /\ explored \cap FrontierStates = {}
    /\ Cardinality(FrontierStates) = FrontierSize

\* a duplicate of a frontier state is the next child, next to an explored state
DedupWitness ==
    /\ pc = "child" /\ children # <<>>
    /\ Head(children).state \in FrontierStates
    /\ Head(children) \notin FrontierNodes
    /\ Cardinality(FrontierStates) >= 2
    /\ explored # {}

(***************************************************************************)
(* C2.  BFS optimality: on a problem of unit step cost with a reachable    *)
(* goal, breadth_first_graph_search called without a step limit returns a  *)
(* node whose solution has the least number of actions of any action       *)
(* sequence from the initial state to a goal (0 when the initial state is  *)
(* a goal).                                                                *)
(***************************************************************************)
BfsOptimal ==
    (/\ alg = "bfs" /\ Done /\ step_limits <= 0
     /\ problem.kind \in {"graph", "maze"}
     /\ GoalReachableFrom(problem, problem.initial))
    => /\ Returned
       /\ Len(solution(result[1])) = RefMinCostFrom(problem, problem.initial)

\* a goal two actions away was returned, on a graph with more than one way on
BfsOptimalWitness ==
    /\ alg = "bfs" /\ pc = "return_child" /\ step_limits <= 0
    /\ problem.kind = "graph"
    /\ Len(solution(result[1])) = 2
    /\ Len(actions(problem, problem.initial)) >= 2

(***************************************************************************)
(* C3.  Best-first optimality: scored by f(n) = n.path_cost + h(n.state)   *)
(* with h admissible and consistent, on a graph of positive edge costs     *)
(* with a reachable goal, best_first_graph_search returns a node whose     *)
(* path_cost is the least total cost of a path from the initial state to a *)
(* goal.                                                                   *)
(***************************************************************************)
RefH(p, s) == h(p, [state |-> s])

\* h never exceeds the least cost of reaching a goal
Admissible(p) ==
    \A s \in StatesOf(p) :
        GoalReachableFrom(p, s) => RefH(p, s) <= RefMinCostFrom(p, s)

\* h obeys the triangle inequality along every edge
Consistent(p) ==
    \A s \in StatesOf(p) : \A e \in RefSucc(p, s) : RefH(p, s) <= e[2] + RefH(p, e[1])

AStarOptimal ==
    (/\ alg = "best" /\ fkind = "g+h" /\ Done /\ Concrete
     /\ GoalReachableFrom(problem, problem.initial)
     /\ Admissible(problem) /\ Consistent(problem))
    => /\ pc = "return_pop"
       /\ result[1].path_cost = RefMinCostFrom(problem, problem.initial)

\* the returned path of two edges is cheaper than the edge from the initial
\* state to the same goal, under a heuristic that is not zero everywhere
AStarOptimalWitness ==
    /\ alg = "best" /\ fkind = "g+h" /\ pc = "return_pop"
    /\ problem.kind = "wgraph"
    /\ Admissible(problem) /\ Consistent(problem)
    /\ \E s \in States : problem.h[s] > 0
    /\ result[1].depth = 2
    /\ problem.cost[problem.initial][result[1].state] > result[1].path_cost

(***************************************************************************)
(* C4.  Solution reconstruction: for every node n a search creates or      *)
(* returns, len(n.solution()) = n.depth, and the actions of n.solution(),  *)
(* applied in order from problem.initial with problem.result, each one     *)
(* among problem.actions of the state it is applied to, end in n.state.    *)
(***************************************************************************)
SolutionReconstruction ==
    \A n \in LiveNodes :
        /\ Len(solution(n)) = n.depth
        /\ Replay(problem, problem.initial, solution(n)) = <<n.state>>

\* a node three or more actions deep was returned
SolutionReconstructionWitness ==
    /\ Returned
    /\ result[1].depth >= 3
    /\ Len(solution(result[1])) >= 3

(***************************************************************************)
(* C5.  Failure reporting: on a problem in which no goal can be reached    *)
(* from the initial state, both searches end by returning None after the   *)
(* frontier empties; they return no node and raise no error.               *)
(* FailureReporting states it for every call; FailureReportingNoLimit for  *)
(* the calls of breadth_first_graph_search without a positive step limit.  *)
(***************************************************************************)
FailureReporting ==
    (/\ Done /\ Concrete
     /\ ~GoalReachableFrom(problem, problem.initial))
    => pc = "return_none" /\ result = None

FailureReportingNoLimit ==
    (/\ Done /\ Concrete
     /\ alg = "bfs" => step_limits <= 0
     /\ ~GoalReachableFrom(problem, problem.initial))
    => pc = "return_none" /\ result = None

\* failure after two or more expansions, the problem having a goal
FailureReportingWitness ==
    /\ pc = "return_none" /\ result = None
    /\ Cardinality(explored) >= 2
    /\ RefGoals(problem) # {}
    /\ frontier \in {<<>>, {}}

(***************************************************************************)
(* C6.  End-to-end scenario: on the maze of the script, from (0,0) to      *)
(* (4,4), breadth_first_graph_search and best_first_graph_search scored by *)
(* MazePuzzle.h both return a node whose solution has 8 actions, every     *)
(* step moving to an in-bounds passable cell next to the last, the last    *)
(* step reaching (4,4).                                                    *)
(***************************************************************************)
ValidMazePath(p, pth) ==
    /\ pth[1].state = p.initial
    /\ \A i \in 2..Len(pth) :
          /\ Passable(p.maze, pth[i].state)
          /\ Abs(pth[i].state[1] - pth[i - 1].state[1])
               + Abs(pth[i].state[2] - pth[i - 1].state[2]) = 1

ScriptScenario ==
    (/\ problem.kind = "maze" /\ problem = ScriptPuzzle
     /\ Done
     /\ (alg = "bfs" /\ step_limits <= 0) \/ (alg = "best" /\ fkind = "h"))
    => /\ Returned
       /\ Len(solution(result[1])) = 8
       /\ ValidMazePath(problem, path(result[1]))
       /\ result[1].state = <<4, 4>>

\* the best-first search of the script has returned
ScriptScenarioWitness ==
    /\ problem.kind = "maze" /\ problem = ScriptPuzzle
    /\ alg = "best" /\ fkind = "h"
    /\ pc = "return_pop"
    /\ result[1].depth = 8

(***************************************************************************)
(* C7.  No reopening: once a state is in the explored set it stays there   *)
(* and no node holding it is in the frontier afterwards; in the best-first *)
(* search a child whose state is explored leaves frontier and explored set *)
(* unchanged, also when its f is lower than the f the state was expanded   *)
(* with.                                                                   *)
(***************************************************************************)
NoReopenStep ==
    /\ \A s \in explored : s \in explored' /\ s \notin FrontierStates'
    /\ (/\ alg = "best" /\ pc = "child" /\ children # <<>>
        /\ Head(children).state \in explored)
       => UNCHANGED <<frontier, explored>>

NoReopening == [][NoReopenStep]_vars

\* the next child holds an explored state, with an f below that of the node
\* the state was expanded with
NoReopeningWitness ==
    /\ alg = "best" /\ pc = "child" /\ children # <<>>
    /\ Head(children).state \in explored
    /\ \E i \in 1..Len(popped) :
          /\ popped[i].state = Head(children).state
          /\ f(problem, fkind, Head(children)) < f(problem, fkind, popped[i])

(***************************************************************************)
(* C8.  Returned nodes are goals: a node returned by the best-first        *)
(* search, or by the breadth-first search called with a non-positive step  *)
(* limit, holds a goal state reached from problem.initial by its solution; *)
(* a call that returns no node returns None.                               *)
(***************************************************************************)
ReturnedAreGoals ==
    (alg = "best" \/ step_limits <= 0) =>
        /\ Returned =>
              /\ goal_test(problem, result[1].state)
              /\ result[1].state \in RefGoals(problem)
              /\ Replay(problem, problem.initial, solution(result[1]))
                   = <<result[1].state>>
        /\ (Done /\ Concrete /\ ~Returned) => (pc = "return_none" /\ result = None)

\* the greedy search returned a goal two edges away
ReturnedAreGoalsWitness ==
    /\ alg = "best" /\ fkind = "h" /\ pc = "return_pop"
    /\ problem.kind = "wgraph"
    /\ result[1].depth = 2
    /\ result[1].state \in RefGoals(problem)

(***************************************************************************)
(* C9.  Step limit: at the forced return of breadth_first_graph_search     *)
(* called with the positive step limit N, N nodes have been dequeued and   *)
(* the node returned is the last of them, whatever goal_test says of it.   *)
(* StepLimitExpansions states that all N have been expanded (their state   *)
(* added to explored); StepLimitDequeues that the first N-1 have, and the  *)
(* N-th is returned unexpanded.                                            *)
(***************************************************************************)
StepLimitExpansions ==
    pc = "return_limit" =>
        /\ Len(popped) = step_limits
        /\ \A i \in 1..Len(popped) : popped[i].state \in explored
        /\ Cardinality(explored) = step_limits
        /\ result = <<popped[Len(popped)]>>

StepLimitDequeues ==
    pc = "return_limit" =>
        /\ step_limits > 0
        /\ step_num = step_limits
        /\ Len(popped) = step_limits
        /\ explored = {popped[i].state : i \in 1..(step_limits - 1)}
        /\ Cardinality(explored) = step_limits - 1
        /\ result = <<popped[step_limits]>>
        /\ result[1].state \notin explored

\* a forced return at the second dequeue
StepLimitWitness ==
    /\ pc = "return_limit"
    /\ step_limits = 2
    /\ Len(popped) = 2
    /\ Cardinality(explored) = 1

(***************************************************************************)
(* C10.  Default goal test: Problem.goal_test(state) is true exactly when  *)
(* state equals goal, for a problem built with a single goal state, and    *)
(* exactly when state is a member of goal, for a problem built with a list *)
(* of goal states; it is false in every other case.                        *)
(***************************************************************************)
DefaultGoalTest ==
    problem.kind # "maze" =>
        \A s \in States :
            ProblemGoalTest(problem, s) <=>
                \/ problem.goal.tag = "single" /\ s = problem.goal.val
                \/ problem.goal.tag = "list" /\ s \in Range(problem.goal.val)

\* a search returned the state that is the second element of a list goal
DefaultGoalTestWitness ==
    /\ Returned
    /\ problem.kind # "maze"
    /\ problem.goal.tag = "list"
    /\ result[1].state = problem.goal.val[2]
    /\ ProblemGoalTest(problem, result[1].state)

(***************************************************************************)
(* C11.  Contract violation: on a Problem that leaves actions or result    *)
(* out, a search ends in NotImplementedError when it first expands a node, *)
(* and the error leaves the search: no node and no None is returned after  *)
(* an expansion was attempted.                                             *)
(* ContractViolation states that this happens whenever the initial state   *)
(* is not a goal.  ContractViolationExpansion states it for the calls that *)
(* reach an expansion that invokes the missing method: the search raises   *)
(* at its first expansion unless the initial state is a goal, or the       *)
(* breadth-first search was called with the step limit 1 (both return the  *)
(* root unexpanded), or only result is missing and the initial state has   *)
(* no action (None is returned after the one expansion).                   *)
(***************************************************************************)
RootNode == Node(problem.initial, None, NoAction, 0)

ContractViolation ==
    (ResultNotImplemented(problem) /\ Done) =>
        /\ ~goal_test(problem, problem.initial) => pc = "raise"
        /\ explored # {} => pc = "raise"

ContractViolationExpansion ==
    (ResultNotImplemented(problem) /\ Done) =>
        LET goalroot == problem.initial \in RefGoals(problem)
            limited == alg = "bfs" /\ step_limits = 1
            calls == IF problem.kind = "abstract" THEN TRUE
                     ELSE RefSucc(problem, problem.initial) # {}
        IN /\ pc = "raise" <=> (~goalroot /\ ~limited /\ calls)
           /\ pc = "raise" =>
                 /\ result = None
                 /\ explored = {problem.initial}
                 /\ step_num = 1
                 /\ popped = <<RootNode>>
           /\ Returned <=> (goalroot \/ limited)
           /\ Returned =>
                 /\ result = <<RootNode>>
                 /\ explored = {}
                 /\ pc # "return_child"
           /\ pc = "return_none" =>
                 /\ problem.kind = "noresult"
                 /\ explored = {problem.initial}
                 /\ step_num = 1

\* the search raised from problem.result, problem.actions being implemented
ContractViolationWitness ==
    /\ pc = "raise"
    /\ problem.kind = "noresult"
    /\ Len(actions(problem, node.state)) >= 2
    /\ explored = {problem.initial}

(***************************************************************************)
(* C12.  Frontier replacement: in best_first_graph_search, when the state  *)
(* of a generated child is held by a frontier entry of score f_old, the    *)
(* entry is replaced by the child with score f(child) if and only if       *)
(* f(child) < f_old; otherwise the frontier is left as it is.  Either way  *)
(* the frontier then holds one entry for the state, of score               *)
(* min(f_old, f(child)), and every other entry is unchanged.               *)
(***************************************************************************)
EntriesOf(q, s) == {e \in q : e.item.state = s}

ReplacementStep ==
    (/\ alg = "best" /\ pc = "child" /\ children # <<>>
     /\ Head(children).state \in FrontierStates)
    => LET child == Head(children)
           fc == f(problem, fkind, child)
           old == CHOOSE e \in frontier : e.item.state = child.state
       IN /\ frontier' = IF fc < old.f
                         THEN (frontier \ {old}) \cup {[f |-> fc, item |-> child]}
                         ELSE frontier
          /\ Cardinality(EntriesOf(frontier', child.state)) = 1
          /\ \A e \in EntriesOf(frontier', child.state) : e.f = Min({old.f, fc})
          /\ frontier' \ EntriesOf(frontier', child.state)
               = frontier \ EntriesOf(frontier, child.state)

FrontierReplacement == [][ReplacementStep]_vars

\* a frontier entry is a child of the node being expanded, of a state that a
\* node expanded earlier put into the frontier with a higher score
FrontierReplacementWitness ==
    /\ alg = "best" /\ pc = "child" /\ fkind = "g+h"
    /\ \E e \in frontier : \E i \in 1..(Len(popped) - 1) :
          /\ e.item.parent = <<node>>
          /\ popped[i] # node
          /\ \E x \in RefSucc(problem, popped[i].state) :
                /\ x[1] = e.item.state
                /\ e.f < popped[i].path_cost + x[2] + RefH(problem, x[1])

(***************************************************************************)
(* C13.  BFS level order: in breadth_first_graph_search the depths of the  *)
(* nodes dequeued, in the order of their dequeueing, never decrease; at    *)
(* every moment the depths of the nodes in the frontier never decrease     *)
(* from head to tail and differ by at most 1.                              *)
(***************************************************************************)
NonDecreasingDepth(q) == \A i \in 1..(Len(q) - 1) : q[i].depth <= q[i + 1].depth

BfsLevelOrder ==
    alg = "bfs" =>
        /\ NonDecreasingDepth(popped)
        /\ NonDecreasingDepth(frontier)
        /\ \A i, j \in 1..Len(frontier) :
              frontier[i].depth - frontier[j].depth \in {-1, 0, 1}

\* three nodes of rising depth were dequeued and the frontier holds two depths
BfsLevelOrderWitness ==
    /\ alg = "bfs"
    /\ Len(popped) >= 3
    /\ popped[1].depth < popped[2].depth
    /\ popped[2].depth < popped[Len(popped)].depth
    /\ Len(frontier) >= 2
    /\ frontier[1].depth < frontier[Len(frontier)].depth

(***************************************************************************)
(* C14.  BFS goal check on generation: in breadth_first_graph_search no    *)
(* node holding a goal state is ever in the frontier.  A goal initial      *)
(* state is returned as the root, of depth 0 and empty solution, before    *)
(* the frontier is created; the first generated child that is neither      *)
(* explored nor in the frontier and holds a goal state is returned at      *)
(* once, without being enqueued.                                           *)
(***************************************************************************)
\* the children of the node being expanded that the loop has gone through
ChildrenDone ==
    LET all == expand(node, problem)
    IN SubSeq(all, 1, Len(all) - Len(children))

BfsGoalOnGeneration ==
    alg = "bfs" =>
        /\ FrontierStates \cap RefGoals(problem) = {}
        /\ explored \cap RefGoals(problem) = {}
        /\ (pc # "start" /\ problem.initial \in RefGoals(problem)) => pc = "return_root"
        /\ pc = "return_root" =>
              /\ result = <<RootNode>>
              /\ result[1].depth = 0
              /\ solution(result[1]) = <<>>
              /\ result[1].state \in RefGoals(problem)
              /\ frontier = <<>> /\ explored = {} /\ step_num = 0
        /\ pc \in {"child", "return_child"} =>
              \A i \in 1..Len(ChildrenDone) : ChildrenDone[i].state \notin RefGoals(problem)
        /\ pc = "return_child" =>
              /\ result = <<Head(children)>>
              /\ result[1].parent = <<node>>
              /\ result[1].state \in RefGoals(problem)
              /\ result[1].state \notin FrontierStates \cup explored

\* a goal child was returned, not the first child of its parent, the frontier
\* holding other nodes
BfsGoalOnGenerationWitness ==
    /\ alg = "bfs" /\ pc = "return_child"
    /\ Len(ChildrenDone) >= 1
    /\ Len(frontier) >= 1
    /\ Cardinality(explored) >= 2
    /\ result[1].state \notin FrontierStates

(***************************************************************************)
(* C15.  Best-first goal check on dequeue: best_first_graph_search returns *)
(* a node only when that node has just been popped as the least-f entry of *)
(* the frontier.  A generated child holding a goal state is put into the   *)
(* frontier like any other child; at the return the f of the node returned *)
(* is at most the f of every entry left in the frontier.                   *)
(***************************************************************************)
BestGoalOnDequeue ==
    alg = "best" =>
        /\ pc \notin {"return_root", "return_child", "return_limit"}
        /\ pc = "child" =>
              \A i \in 1..Len(ChildrenDone) :
                  ChildrenDone[i].state \in explored \cup FrontierStates
        /\ pc = "return_pop" =>
              /\ result = <<node>>
              /\ node = popped[Len(popped)]
              /\ step_num = Len(popped)
              /\ node.state \in RefGoals(problem)
              /\ node.state \notin FrontierStates
              /\ \A e \in frontier : f(problem, fkind, node) <= e.f

\* the goal node returned was generated two or more pops before its own, and
\* an entry of higher f is left in the frontier
BestGoalOnDequeueWitness ==
    /\ alg = "best" /\ pc = "return_pop"
    /\ \E i \in 1..(Len(popped) - 2) : result[1].parent = <<popped[i]>>
    /\ \E e \in frontier : f(problem, fkind, result[1]) < e.f

(***************************************************************************)
(* C16.  Maze moves stay on passable cells: for every in-bounds state of a *)
(* rectangular maze, MazePuzzle.actions returns exactly those of UP, DOWN, *)
(* LEFT, RIGHT whose destination cell (row-1, row+1, col-1, col+1) is in   *)
(* the grid and marked '.', and MazePuzzle.result applies that offset;     *)
(* every state held by a frontier node or the explored set during either   *)
(* search, other than the initial one, is an in-bounds passable cell.      *)
(***************************************************************************)
Directions == {"UP", "DOWN", "LEFT", "RIGHT"}

Dest(s, a) ==
    CASE a = "UP" -> <<s[1] - 1, s[2]>>
      [] a = "DOWN" -> <<s[1] + 1, s[2]>>
      [] a = "LEFT" -> <<s[1], s[2] - 1>>
      [] a = "RIGHT" -> <<s[1], s[2] + 1>>

MazeMoves ==
    problem.kind = "maze" =>
        /\ \A s \in Cells(problem.maze) :
              LET acts == actions(problem, s)
              IN /\ Range(acts) = {a \in Directions : Passable(problem.maze, Dest(s, a))}
                 /\ Cardinality(Range(acts)) = Len(acts)
                 /\ \A a \in Range(acts) : Result(problem, s, a) = Dest(s, a)
        /\ \A s \in FrontierStates \cup explored :
              s = problem.initial \/ Passable(problem.maze, s)

\* three cells are explored, one of them next to a wall inside the grid, and
\* the frontier holds a cell
MazeMovesWitness ==
    /\ problem.kind = "maze"
    /\ Cardinality(explored) >= 3
    /\ FrontierStates # {}
    /\ \E s \in explored : \E a \in Directions :
          /\ Dest(s, a) \in Cells(problem.maze)
          /\ ~Passable(problem.maze, Dest(s, a))
          /\ a \notin Range(actions(problem, s))

(***************************************************************************)
(* C17.  The Manhattan heuristic is admissible and consistent on           *)
(* MazePuzzle: for every grid, every goal cell and every cell s from which *)
(* the goal can be reached, MazePuzzle.h at s is at most the least number  *)
(* of moves from s to the goal; h at the goal is 0; and for every action a *)
(* of actions(s), h(s) <= 1 + h(result(s, a)).                             *)
(***************************************************************************)
ManhattanHeuristic ==
    problem.kind = "maze" =>
        /\ RefH(problem, problem.goal.val) = 0
        /\ \A s \in Cells(problem.maze) :
              /\ GoalReachableFrom(problem, s) =>
                    RefH(problem, s) <= RefMinCostFrom(problem, s)
              /\ LET acts == actions(problem, s)
                 IN \A i \in 1..Len(acts) :
                       RefH(problem, s)
                         <= 1 + RefH(problem, Result(problem, s, acts[i]))

\* a search scored with h returned a path longer than h of the initial cell,
\* the walls forcing a way round
ManhattanHeuristicWitness ==
    /\ problem.kind = "maze" /\ alg = "best" /\ pc = "return_pop"
    /\ RefH(problem, problem.initial) >= 2
    /\ RefMinCostFrom(problem, problem.initial) > RefH(problem, problem.initial)
    /\ result[1].path_cost = RefMinCostFrom(problem, problem.initial)

(***************************************************************************)
(* C18.  Termination with single expansion: on every problem with finitely *)
(* many states reachable from the initial state both searches eventually   *)
(* end (with a node, with None, or with the error of a missing method);    *)
(* within one run no state is dequeued or expanded twice, an expansion     *)
(* generating one child per successor, so the number of loop iterations    *)
(* never exceeds the number of reachable states.                           *)
(***************************************************************************)
\* the states a path leads to from the initial state
ReachableStates ==
    IF problem.kind = "abstract" THEN {problem.initial}
    ELSE DOMAIN RefDist(problem, problem.initial)

SingleExpansion ==
    /\ \A i, j \in 1..Len(popped) : popped[i].state = popped[j].state => i = j
    /\ explored \subseteq {popped[i].state : i \in 1..Len(popped)}
    /\ explored \subseteq ReachableStates
    /\ pc # "start" => step_num = Len(popped)
    /\ Cardinality(explored) <= step_num
    /\ step_num <= Cardinality(ReachableStates)
    /\ pc = "child" =>
          /\ node = popped[Len(popped)]
          /\ node.state \in explored
          /\ Len(children) <= Cardinality(RefSucc(problem, node.state))

Termination == (<>Done) /\ [](SingleExpansion)

\* a search ended after one iteration for every reachable state, three or
\* more, one of them with an edge back to the initial state
TerminationWitness ==
    /\ pc = "return_none"
    /\ problem.kind \in {"graph", "wgraph"}
    /\ step_num = Cardinality(ReachableStates)
    /\ step_num >= 3
    /\ \E s \in explored \ {problem.initial} : problem.cost[s][problem.initial] > 0

====
